---- MODULE Spec2Model ----
(***************************************************************************)
(* The interactive session of sniffy (src/main.go, second program text,    *)
(* lines 440-1352): the Bubble Tea model, its Update handler, the commands *)
(* it dispatches and the secret store they talk to.                        *)
(*                                                                         *)
(* Go slices are 0-based, TLA+ sequences 1-based: the Go element s[i] is   *)
(* s[i+1] here; cursors and indices keep their Go (0-based) values.        *)
(***************************************************************************)
EXTENDS Bags, FiniteSets, Integers, Sequences, TLC

\* ------------------------------------------------------------------ bounds
NumSecrets == 2    \* secrets of the account when the program starts
NumViewSecrets == 1 \* the same, in the sessions that open the detail view
MaxQuery   == 1    \* longest text typed into the filter input
MaxPending == 1    \* commands and messages in flight at one time
MaxRacing == 2     \* the same, in the sessions that let operations overlap
MaxViewing == 2    \* the same, in the sessions of the detail view with overlap
MaxFuzzyQuery == 2  \* longest query given to isFuzzyMatch on its own
MaxFuzzyTarget == 3 \* longest target given to isFuzzyMatch on its own
MaxRecords == 2     \* longest listing given to AnalyzeSecrets on its own

\* --------------------------------------------------------- program constants
recentThresholdDays == 14
TableHeight == 10
Now == 100 * 24     \* the instant of the run, in hours

\* ------------------------------------------------------------ the secret store
\* What ListSecrets returns for the i-th secret of the account: name,
\* creation time and last access time in hours (-1: never accessed).
SecretName(i) ==
  CASE i = 1 -> <<"a">>
    [] i = 2 -> <<"A", "b">>
    [] i = 3 -> <<"b">>
    [] OTHER -> <<"b", "a">>

SecretEntry(i) ==
  CASE i = 1 -> [Name |-> SecretName(1), CreatedDate |-> 0,    LastAccessedDate |-> 1680]
    [] i = 2 -> [Name |-> SecretName(2), CreatedDate |-> 1200, LastAccessedDate |-> 2352]
    [] i = 3 -> [Name |-> SecretName(3), CreatedDate |-> 1920, LastAccessedDate |-> -1]
    [] OTHER -> [Name |-> SecretName(i), CreatedDate |-> 2328, LastAccessedDate |-> -1]

InitialStore == [i \in 1..NumSecrets |-> SecretEntry(i)]

\* Characters the user can type into the filter input.
Chars == {"a", "B"}

NoErr == ""

\* What the history variable last holds: the handler branch that ran, by name
Ev(name) == [ev |-> name]

\* What the history variable session holds while no filter session is open
NoSession == [open |-> FALSE]

\* What the variable call holds while the session runs
NoCall == [fn |-> "none"]

VARIABLES
  state,            \* m.state
  results,          \* m.results
  baseResults,      \* m.baseResults
  originalResults,  \* m.originalResults
  selected,         \* m.selected
  originalSelected, \* m.originalSelected
  analyzer,         \* m.analyzer # nil
  err,              \* m.err (NoErr: nil)
  viewingSecret,    \* m.viewingSecret
  versions,         \* m.versions
  deleteError,      \* m.deleteError: the names the message lists
  lastCursorPos,    \* m.lastCursorPos
  filtered,         \* m.filtered
  hasFilter,        \* m.hasFilter
  table,            \* m.table: rows and cursor
  versionTable,     \* m.versionTable: number of rows and cursor
  filterInput,      \* m.filterInput.Value()
  store,            \* the secrets the account holds, in listing order
  pending,          \* bag of dispatched commands and undelivered messages
  proc,             \* "running", "exited" (tea.Quit) or "crashed" (panic)
  last,             \* history: the handler branch that ran last
  session,          \* history: the lists and flags as the open filter session found them
  maxInFlight,      \* commands and messages the session has in flight at most
  call              \* a function of the program applied on its own: input and output

vars == <<state, results, baseResults, originalResults, selected,
          originalSelected, analyzer, err, viewingSecret, versions,
          deleteError, lastCursorPos, filtered, hasFilter, table,
          versionTable, filterInput, store, pending, proc, last,
          session, maxInFlight, call>>

\* ------------------------------------------------------------ pure functions
Min(a, b) == IF a < b THEN a ELSE b
Max(a, b) == IF a > b THEN a ELSE b

\* strings.ToLower on one character / on a string
ToLowerChar(c) ==
  CASE c = "A" -> "a"
    [] c = "B" -> "b"
    [] OTHER -> c

ToLower(s) == [k \in 1..Len(s) |-> ToLowerChar(s[k])]

\* The inner loop of isFuzzyMatch: the first position >= i (0-based) of
\* target holding c, or -1.
RECURSIVE FindFrom(_, _, _)
FindFrom(target, c, i) ==
  IF i >= Len(target) THEN -1
  ELSE IF target[i + 1] = c THEN i
  ELSE FindFrom(target, c, i + 1)

\* The outer loop of isFuzzyMatch from query position k (1-based), with the
\* target index at i.
RECURSIVE FuzzyLoop(_, _, _, _)
FuzzyLoop(query, target, k, i) ==
  IF k > Len(query) THEN TRUE
  ELSE LET j == FindFrom(target, query[k], i)
       IN IF j = -1 THEN FALSE ELSE FuzzyLoop(query, target, k + 1, j + 1)

\* A string is the sequence of its characters. An ASCII character is one
\* byte; "U+E9" and "U+A9" name two characters of two bytes each. A byte is
\* written as the character rune(byte) it compares equal to.
Utf8(c) ==
  CASE c = "U+E9" -> <<"U+C3", "U+A9">>
    [] c = "U+A9" -> <<"U+C2", "U+A9">>
    [] OTHER -> <<c>>

\* target[0], target[1], ...: the bytes of the string
RECURSIVE Bytes(_)
Bytes(str) == IF str = <<>> THEN <<>> ELSE Utf8(Head(str)) \o Bytes(Tail(str))

\* isFuzzyMatch with a slip: the query has to occur in one piece
isFuzzyMatchContiguous(query, target) ==
  \E k \in 0..(Len(target) - Len(query)) :
    SubSeq(ToLower(target), k + 1, k + Len(query)) = ToLower(query)

\* range query yields the characters of the query; target[i] is a byte
isFuzzyMatch(query, target) ==
  FuzzyLoop(ToLower(query), Bytes(ToLower(target)), 1, 0)

\* int(time.Since(t).Hours() / 24)
DaysSince(t) == IF Now >= t THEN (Now - t) \div 24 ELSE -((t - Now) \div 24)

\* t.Format("2006-01-02"): the calendar day of t
FormatDate(t) == t \div 24

\* One iteration of the loop of AnalyzeSecrets: is the entry kept?
AnalyzeKeeps(entry, applyFilter) ==
  LET createdDays == DaysSince(entry.CreatedDate)
      daysSinceAccess == IF entry.LastAccessedDate # -1
                         THEN DaysSince(entry.LastAccessedDate)
                         ELSE createdDays
  IN ~(applyFilter /\ daysSinceAccess <= recentThresholdDays)

SecretResultOf(entry) ==
  [Name |-> entry.Name,
   LastAccessed |-> IF entry.LastAccessedDate # -1
                    THEN <<"date", FormatDate(entry.LastAccessedDate)>>
                    ELSE <<"Never">>]

\* AnalyzeLoop with a slip: a result is put in front of the earlier ones
RECURSIVE AnalyzeLoopPrepends(_, _, _)
AnalyzeLoopPrepends(secrets, applyFilter, k) ==
  IF k > Len(secrets) THEN <<>>
  ELSE AnalyzeLoopPrepends(secrets, applyFilter, k + 1)
       \o (IF AnalyzeKeeps(secrets[k], applyFilter)
           THEN <<SecretResultOf(secrets[k])>> ELSE <<>>)

RECURSIVE AnalyzeLoop(_, _, _)
AnalyzeLoop(secrets, applyFilter, k) ==
  IF k > Len(secrets) THEN <<>>
  ELSE (IF AnalyzeKeeps(secrets[k], applyFilter)
        THEN <<SecretResultOf(secrets[k])>> ELSE <<>>)
       \o AnalyzeLoop(secrets, applyFilter, k + 1)

AnalyzeSecrets(secrets, applyFilter) == AnalyzeLoop(secrets, applyFilter, 1)

\* make([]bool, n)
MakeBools(n) == [k \in 1..n |-> FALSE]

\* FilterKeeps with a slip: the exclude state keeps the matches too
FilterKeepsIgnoresMode(st, filter, res) == isFuzzyMatch(filter, res.Name)

\* The preview loop of the filter states.
FilterKeeps(st, filter, res) ==
  LET match == isFuzzyMatch(filter, res.Name)
  IN (st = "filter_include" /\ match) \/ (st = "filter_exclude" /\ ~match)

\* PreviewFilter with a slip: the loop runs over the list on display, so a
\* keystroke narrows the previous preview
PreviewFilterStacked(st, filter, orig) ==
  SelectSeq(results, LAMBDA res : FilterKeeps(st, filter, res))

PreviewFilter(st, filter, orig) ==
  SelectSeq(orig, LAMBDA res : FilterKeeps(st, filter, res))

\* model.formatResults
formatResults(res, sel) ==
  [k \in 1..Len(res) |->
     [Check |-> (k <= Len(sel) /\ sel[k]),
      Name |-> res[k].Name,
      LastAccessed |-> res[k].LastAccessed]]

\* ---------------------------------------------------------------- the tables
Clamp(v, low, high) == Min(Max(v, low), high)

SetRows(t, rows) ==
  [rows |-> rows,
   cursor |-> IF t.cursor > Len(rows) - 1 THEN Len(rows) - 1 ELSE t.cursor]

SetCursor(t, n) == [t EXCEPT !.cursor = Clamp(n, 0, Len(t.rows) - 1)]

\* table.Update for a key message
TableUpdate(t, key) ==
  CASE key = "up"   -> [t EXCEPT !.cursor = Clamp(t.cursor - 1, 0, Len(t.rows) - 1)]
    [] key = "down" -> [t EXCEPT !.cursor = Clamp(t.cursor + 1, 0, Len(t.rows) - 1)]
    [] key = " "    -> [t EXCEPT !.cursor = Clamp(t.cursor + TableHeight, 0, Len(t.rows) - 1)]
    [] OTHER -> t

\* ------------------------------------------------------- versions of a secret
\* What ListSecretVersions returns for a secret, as fetchVersions formats it:
\* the secret named <<"a">> has two versions, every other secret one.
NumVersionsOf(name) == IF name = SecretName(1) THEN 1 + 1 ELSE 1

VersionsOf(name) ==
  [k \in 1..NumVersionsOf(name) |->
     [VersionId |-> <<name, k>>, Value |-> <<"********">>, Revealed |-> FALSE]]

\* GetSecretValue names a secret and one of its versions: the service has a
\* value only for a version id that the secret's own listing holds
HasVersion(name, versionId) ==
  \E k \in 1..NumVersionsOf(name) : VersionsOf(name)[k].VersionId = versionId

\* What GetSecretValue returns
SecretValueOf(name, versionId) == <<"plain", name, versionId>>

\* model.formatVersions makes one row of every version; the rows are only
\* displayed, and the version table of the model keeps their number, which
\* is what bounds its cursor.
formatVersions(vs) == Len(vs)

\* versionTable.SetRows
SetVersionRows(t, n) ==
  [rows |-> n, cursor |-> IF t.cursor > n - 1 THEN n - 1 ELSE t.cursor]

\* versionTable.Update for a key message
VersionTableUpdate(t, key) ==
  CASE key = "up"   -> [t EXCEPT !.cursor = Clamp(t.cursor - 1, 0, t.rows - 1)]
    [] key = "down" -> [t EXCEPT !.cursor = Clamp(t.cursor + 1, 0, t.rows - 1)]
    [] OTHER -> t

\* ------------------------------------------------- commands and messages in flight
\* A tea.Cmd runs in its own goroutine and sends one message to the event
\* loop; pending holds, as a bag, the commands still running and the
\* messages not yet handled:
\*   [kind |-> "tick", by]                 tea.Tick that will send startScanMsg;
\*                                         by: what scheduled it ("init", "r", "R")
\*   [kind |-> "scan", filtered]           startRealScan, not yet run
\*   [kind |-> "analysisCompleteMsg", results, err]
\*   [kind |-> "fetchVersions", secret]    fetchVersions, result not yet handled
\*   [kind |-> "revealValue", index, secret, versionId]
\*   [kind |-> "performDelete", ...]       performDelete, see NewDelete
Dispatch(bag, op) == bag (+) SetToBag({op})
Remove(bag, op) == bag (-) SetToBag({op})
InFlight == BagCardinality(pending)
Ops == BagToSet(pending)

\* performDelete's closure holds m.results (never written in place) and the
\* slice m.selected, whose array the space key writes in place. While
\* m.selected still is that array (live) the goroutine reads the current
\* mask; once Update has assigned a new slice to m.selected the goroutine
\* keeps the array as it was (sel). i is the loop index, errs the names
\* written to errStr; calls and want record the DeleteSecret calls made and
\* the mask at dispatch.
NewDelete(res, sel) ==
  [kind |-> "performDelete", results |-> res, n |-> Len(sel), live |-> TRUE,
   sel |-> <<>>, i |-> 0, errs |-> <<>>, calls |-> <<>>, want |-> sel]

BatchSel(op) == IF op.live THEN selected ELSE op.sel

FreezeOp(op) ==
  IF op.kind = "performDelete" /\ op.live
  THEN [op EXCEPT !.live = FALSE, !.sel = selected]
  ELSE op

\* m.selected is assigned a new slice: running delete batches keep the old array
Frozen(bag) ==
  LET copies == UNION {{<<x, k>> : k \in 1..bag[x]} : x \in DOMAIN bag}
  IN [y \in {FreezeOp(x) : x \in DOMAIN bag} |->
        Cardinality({c \in copies : FreezeOp(c[1]) = y})]

\* ----------------------------------------------------------------------- Init
\* The program text of the process is gone once it has exited (tea.Quit) or
\* crashed (a panic): nothing of the model is left to observe, and the
\* variables take these values.
Gone(how) ==
  /\ proc' = how
  /\ analyzer' = FALSE
  /\ state' = "gone"
  /\ results' = <<>>
  /\ baseResults' = <<>>
  /\ originalResults' = <<>>
  /\ selected' = <<>>
  /\ originalSelected' = <<>>
  /\ err' = NoErr
  /\ viewingSecret' = <<>>
  /\ versions' = <<>>
  /\ deleteError' = <<>>
  /\ lastCursorPos' = 0
  /\ filtered' = TRUE
  /\ hasFilter' = FALSE
  /\ table' = [rows |-> <<>>, cursor |-> 0]
  /\ versionTable' = [rows |-> 0, cursor |-> 0]
  /\ filterInput' = <<>>
  /\ session' = NoSession
  /\ pending' = EmptyBag

\* initialModel and model.Init, on an account holding the secrets st
InitOn(st) ==
  /\ analyzer \in BOOLEAN
  /\ state = "banner"
  /\ results = <<>>
  /\ baseResults = <<>>
  /\ originalResults = <<>>
  /\ selected = <<>>
  /\ originalSelected = <<>>
  /\ err = IF analyzer THEN NoErr ELSE "init"
  /\ viewingSecret = <<>>
  /\ versions = <<>>
  /\ deleteError = <<>>
  /\ lastCursorPos = 0
  /\ filtered = TRUE
  /\ hasFilter = FALSE
  /\ table = [rows |-> <<>>, cursor |-> 0]
  /\ versionTable = [rows |-> 0, cursor |-> 0]
  /\ filterInput = <<>>
  /\ session = NoSession
  /\ store = st
  /\ pending = SetToBag({[kind |-> "tick", by |-> "init"]})
  /\ proc = "running"
  /\ last = Ev("init")
  /\ call = NoCall

Init == InitOn(InitialStore) /\ maxInFlight = MaxPending

InitAll == InitOn(SubSeq(InitialStore, 1, NumViewSecrets)) /\ maxInFlight = MaxPending

Running == proc = "running"

\* model.View: what the body of the screen is made of in the current state.
\* In results the rows are rendered only while m.err is nil; with an error
\* the line "Scan failed: ..." takes their place.
View ==
  CASE state = "banner" -> IF err # NoErr THEN "Error" ELSE "Starting scan..."
    [] state = "scanning" -> "renderScanningProgress"
    [] state = "results" -> IF err # NoErr THEN "Scan failed" ELSE "renderResults"
    [] state \in {"filter_include", "filter_exclude"} -> "renderResults"
    [] state = "view_secret" -> "versionTable"
    [] state = "confirm_delete" -> "Confirm delete"
    [] state = "error" -> "Failed to initialize"
    [] OTHER -> "none"

\* -------------------------------------------------------------- key handlers
\* "q" / "ctrl+c" in any state
KeyQuit ==
  /\ Running
  /\ UNCHANGED <<call, maxInFlight>>
  /\ Gone("exited")
  /\ last' = Ev("quit")
  /\ UNCHANGED store

\* confirm_delete, "y"
ConfirmYes ==
  /\ Running
  /\ UNCHANGED <<call, maxInFlight>>
  /\ state = "confirm_delete"
  /\ InFlight < maxInFlight
  /\ pending' = Dispatch(pending, NewDelete(results, selected))
  /\ last' = Ev("confirm_yes")
  /\ UNCHANGED <<state, results, baseResults, originalResults, session, selected,
                 originalSelected, analyzer, err, viewingSecret, versions,
                 deleteError, lastCursorPos, filtered, hasFilter, table,
                 versionTable, filterInput, store, proc>>

\* ConfirmNo with a slip: cancelling also clears the selection
ConfirmNoClearsMask ==
  /\ Running
  /\ UNCHANGED <<call, maxInFlight>>
  /\ state = "confirm_delete"
  /\ state' = "results"
  /\ deleteError' = <<>>
  /\ selected' = MakeBools(Len(selected))
  /\ last' = [ev |-> "confirm_no", hadError |-> deleteError # <<>>]
  /\ UNCHANGED <<results, baseResults, originalResults, originalSelected,
                 analyzer, err, viewingSecret, versions, lastCursorPos,
                 filtered, hasFilter, table, versionTable, filterInput,
                 store, pending, proc, session>>

\* confirm_delete, "n" / "esc"
ConfirmNo ==
  /\ Running
  /\ UNCHANGED <<call, maxInFlight>>
  /\ state = "confirm_delete"
  /\ state' = "results"
  /\ deleteError' = <<>>
  /\ last' = [ev |-> "confirm_no", hadError |-> deleteError # <<>>]
  /\ UNCHANGED <<results, baseResults, originalResults, session, selected,
                 originalSelected, analyzer, err, viewingSecret, versions,
                 lastCursorPos, filtered, hasFilter, table,
                 versionTable, filterInput, store, pending, proc>>

\* textinput.Update: a character is appended, backspace removes the last one
FilterInputUpdate(value, key) ==
  CASE key \in Chars -> Append(value, key)
    [] key = "backspace" -> (IF value = <<>> THEN value ELSE SubSeq(value, 1, Len(value) - 1))
    [] OTHER -> value

FilterKeys == Chars \cup {"backspace", "esc", "enter"}

FilterStates == {"filter_include", "filter_exclude"}

\* m.originalResults, m.originalSelected and the input text are read in the
\* filter states only, and "/" and "?", the only way into those states,
\* write all three first. A handler that leaves the filter states therefore
\* leaves three values nothing reads again; the model drops them there
\* instead of carrying them along.
Snapshot(st) ==
  IF state \in FilterStates /\ st \notin FilterStates
  THEN /\ originalResults' = <<>>
       /\ originalSelected' = <<>>
       /\ filterInput' = <<>>
       /\ session' = NoSession
  ELSE UNCHANGED <<originalResults, originalSelected, filterInput, session>>

\* filter_include / filter_exclude, any key
FilterKey(key) ==
  /\ Running
  /\ UNCHANGED <<call, maxInFlight>>
  /\ state \in FilterStates
  /\ key \in Chars => Len(filterInput) < MaxQuery
  /\ LET filter == FilterInputUpdate(filterInput, key)
         tempResults == PreviewFilter(state, filter, originalResults)
         tempSelected == MakeBools(Len(tempResults))
         preview == SetRows(table, formatResults(tempResults, tempSelected))
     IN IF key = "esc"
        THEN /\ results' = originalResults
             /\ selected' = originalSelected
             /\ table' = SetRows(preview, formatResults(originalResults, originalSelected))
             /\ state' = "results"
             /\ hasFilter' = hasFilter
             /\ Snapshot("results")
             /\ last' = [ev |-> "filter_esc", query |-> filter]
        ELSE /\ results' = tempResults
             /\ selected' = tempSelected
             /\ table' = preview
             /\ IF key = "enter"
                THEN /\ hasFilter' = TRUE
                     /\ state' = "results"
                     /\ Snapshot("results")
                     /\ last' = [ev |-> "filter_enter", query |-> filter]
                ELSE /\ hasFilter' = hasFilter
                     /\ state' = state
                     /\ filterInput' = filter
                     /\ session' = [session EXCEPT !.touched = TRUE]
                     /\ UNCHANGED <<originalResults, originalSelected>>
                     /\ last' = Ev("filter_key")
  /\ pending' = Frozen(pending)
  /\ UNCHANGED <<baseResults, analyzer, err, viewingSecret, versions,
                 deleteError, lastCursorPos, filtered, versionTable, store,
                 proc>>

\* ViewEsc with a slip: the table cursor goes back to the first row
ViewEscToTop ==
  /\ Running
  /\ UNCHANGED <<call, maxInFlight>>
  /\ state = "view_secret"
  /\ state' = "results"
  /\ viewingSecret' = <<>>
  /\ versions' = <<>>
  /\ table' = SetCursor(table, 0)
  /\ last' = Ev("view_esc")
  /\ UNCHANGED <<results, baseResults, originalResults, session, selected,
                 originalSelected, analyzer, err, deleteError, lastCursorPos,
                 filtered, hasFilter, versionTable, filterInput, store,
                 pending, proc>>

\* view_secret, "esc"
ViewEsc ==
  /\ Running
  /\ UNCHANGED <<call, maxInFlight>>
  /\ state = "view_secret"
  /\ state' = "results"
  /\ viewingSecret' = <<>>
  /\ versions' = <<>>
  /\ table' = SetCursor(table, lastCursorPos)
  /\ last' = Ev("view_esc")
  /\ UNCHANGED <<results, baseResults, originalResults, session, selected,
                 originalSelected, analyzer, err, deleteError, lastCursorPos,
                 filtered, hasFilter, versionTable, filterInput, store,
                 pending, proc>>

\* view_secret, "r": reveals the version at the cursor unless it is revealed
\* already; otherwise the key reaches versionTable.Update, which ignores it
ViewReveal ==
  /\ Running
  /\ UNCHANGED <<call, maxInFlight>>
  /\ state = "view_secret"
  /\ LET cursor == versionTable.cursor
         fresh == /\ cursor >= 0
                  /\ cursor < Len(versions)
                  /\ ~versions[cursor + 1].Revealed
     IN /\ fresh => InFlight < maxInFlight
        /\ pending' = IF fresh
                      THEN Dispatch(pending,
                             [kind |-> "revealValue", index |-> cursor,
                              secret |-> viewingSecret,
                              versionId |-> versions[cursor + 1].VersionId])
                      ELSE pending
        /\ last' = [ev |-> "view_reveal", sent |-> fresh]
  /\ UNCHANGED <<state, results, baseResults, originalResults, selected,
                 originalSelected, analyzer, err, viewingSecret, versions,
                 deleteError, lastCursorPos, filtered, hasFilter, table,
                 versionTable, filterInput, store, proc, session>>

\* view_secret, "up" / "down": versionTable.Update
ViewMove(key) ==
  /\ Running
  /\ UNCHANGED <<call, maxInFlight>>
  /\ state = "view_secret"
  /\ key \in {"up", "down"}
  /\ versionTable' = VersionTableUpdate(versionTable, key)
  /\ versionTable' # versionTable
  /\ last' = Ev("view_move")
  /\ UNCHANGED <<state, results, baseResults, originalResults, session, selected,
                 originalSelected, analyzer, err, viewingSecret, versions,
                 deleteError, lastCursorPos, filtered, hasFilter, table,
                 filterInput, store, pending, proc>>

\* results, "r" (rescan, recency filter on) / "R" (rescan all)
ResultsRescan(key) ==
  /\ Running
  /\ UNCHANGED <<call, maxInFlight>>
  /\ state = "results"
  /\ key \in {"r", "R"}
  /\ InFlight < maxInFlight
  /\ filtered' = (key = "r")
  /\ state' = "banner"
  /\ pending' = Dispatch(pending, [kind |-> "tick", by |-> key])
  /\ last' = [ev |-> "rescan", key |-> key]
  /\ UNCHANGED <<results, baseResults, originalResults, session, selected,
                 originalSelected, analyzer, err, viewingSecret, versions,
                 deleteError, lastCursorPos, hasFilter, table, versionTable,
                 filterInput, store, proc>>

\* results, "enter" with the cursor on a row
ResultsEnter ==
  /\ Running
  /\ UNCHANGED <<call, maxInFlight>>
  /\ state = "results"
  /\ LET cursor == table.cursor
     IN /\ cursor >= 0 /\ cursor < Len(results)
        /\ InFlight < maxInFlight
        /\ lastCursorPos' = cursor
        /\ viewingSecret' = results[cursor + 1].Name
        /\ state' = "view_secret"
        /\ pending' = Dispatch(pending,
              [kind |-> "fetchVersions", secret |-> results[cursor + 1].Name])
  /\ last' = [ev |-> "enter", row |-> table.cursor]
  /\ UNCHANGED <<results, baseResults, originalResults, session, selected,
                 originalSelected, analyzer, err, versions, deleteError,
                 filtered, hasFilter, table, versionTable, filterInput,
                 store, proc>>

\* ResultsToggle with a slip: the key flips the whole mask
ResultsToggleFlipsAll ==
  /\ Running
  /\ UNCHANGED <<call, maxInFlight>>
  /\ state = "results"
  /\ LET cursor == table.cursor
     IN IF cursor >= 0 /\ cursor < Len(selected)
        THEN /\ selected' = [k \in 1..Len(selected) |-> ~selected[k]]
             /\ table' = TableUpdate(
                  SetCursor(
                    SetRows(table,
                            [table.rows EXCEPT ![cursor + 1].Check = selected'[cursor + 1]]),
                    cursor),
                  " ")
        ELSE /\ selected' = selected
             /\ table' = TableUpdate(table, " ")
  /\ <<selected', table'>> # <<selected, table>>
  /\ last' = [ev |-> "toggle", row |-> table.cursor, before |-> selected]
  /\ UNCHANGED <<state, results, baseResults, originalResults, session,
                 originalSelected, analyzer, err, viewingSecret, versions,
                 deleteError, lastCursorPos, filtered, hasFilter,
                 versionTable, filterInput, store, pending, proc>>

\* results, " ": toggles the mask entry at the cursor in place and rewrites
\* the row's check mark; the key then reaches table.Update
ResultsToggle ==
  /\ Running
  /\ UNCHANGED <<call, maxInFlight>>
  /\ state = "results"
  /\ LET cursor == table.cursor
     IN IF cursor >= 0 /\ cursor < Len(selected)
        THEN /\ selected' = [selected EXCEPT ![cursor + 1] = ~selected[cursor + 1]]
             /\ table' = TableUpdate(
                  SetCursor(
                    SetRows(table,
                            [table.rows EXCEPT ![cursor + 1].Check = selected'[cursor + 1]]),
                    cursor),
                  " ")
        ELSE /\ selected' = selected
             /\ table' = TableUpdate(table, " ")
  /\ <<selected', table'>> # <<selected, table>>
  /\ last' = [ev |-> "toggle", row |-> table.cursor, before |-> selected]
  /\ UNCHANGED <<state, results, baseResults, originalResults, session,
                 originalSelected, analyzer, err, viewingSecret, versions,
                 deleteError, lastCursorPos, filtered, hasFilter,
                 versionTable, filterInput, store, pending, proc>>

\* hasSelected with a slip: a mask with entries counts as a selection
hasSelectedAnyEntry(sel) == Len(sel) > 0

\* the loop of the "D" branch over m.selected
hasSelected(sel) == \E k \in 1..Len(sel) : sel[k]

\* ResultsDelete with a slip: "D" starts the delete batch at once
ResultsDeleteUnconfirmed ==
  /\ Running
  /\ UNCHANGED <<call, maxInFlight>>
  /\ state = "results"
  /\ hasSelected(selected)
  /\ InFlight < maxInFlight
  /\ pending' = Dispatch(pending, NewDelete(results, selected))
  /\ last' = Ev("delete_key")
  /\ UNCHANGED <<state, results, baseResults, originalResults, selected,
                 originalSelected, analyzer, err, viewingSecret, versions,
                 deleteError, lastCursorPos, filtered, hasFilter, table,
                 versionTable, filterInput, store, proc, session>>

\* results, "D" (Shift+D)
ResultsDelete ==
  /\ Running
  /\ UNCHANGED <<call, maxInFlight>>
  /\ state = "results"
  /\ state' = IF hasSelected(selected) THEN "confirm_delete" ELSE state
  /\ last' = Ev("delete_key")
  /\ UNCHANGED <<results, baseResults, originalResults, selected,
                 originalSelected, analyzer, err, viewingSecret, versions,
                 deleteError, lastCursorPos, filtered, hasFilter, table,
                 versionTable, filterInput, store, pending, proc, session>>

\* ResultsFilterOpen with a slip: the mask is not copied into the snapshot
ResultsFilterOpenNoMask(key) ==
  /\ Running
  /\ UNCHANGED <<call, maxInFlight>>
  /\ state = "results"
  /\ key \in {"/", "?"}
  /\ state' = IF key = "/" THEN "filter_include" ELSE "filter_exclude"
  /\ originalResults' = results
  /\ originalSelected' = MakeBools(Len(selected))
  /\ filterInput' = <<>>
  /\ session' = [open |-> TRUE, touched |-> FALSE, results |-> results,
                  selected |-> selected, base |-> baseResults,
                  hasFilter |-> hasFilter]
  /\ last' = Ev("filter_open")
  /\ UNCHANGED <<results, baseResults, selected, analyzer, err,
                 viewingSecret, versions, deleteError, lastCursorPos,
                 filtered, hasFilter, table, versionTable, store, pending,
                 proc>>

\* results, "/" (include) / "?" (exclude)
ResultsFilterOpen(key) ==
  /\ Running
  /\ UNCHANGED <<call, maxInFlight>>
  /\ state = "results"
  /\ key \in {"/", "?"}
  /\ state' = IF key = "/" THEN "filter_include" ELSE "filter_exclude"
  /\ originalResults' = results
  /\ originalSelected' = selected
  /\ filterInput' = <<>>
  /\ session' = [open |-> TRUE, touched |-> FALSE, results |-> results,
                  selected |-> selected, base |-> baseResults,
                  hasFilter |-> hasFilter]
  /\ last' = Ev("filter_open")
  /\ UNCHANGED <<results, baseResults, selected, analyzer, err,
                 viewingSecret, versions, deleteError, lastCursorPos,
                 filtered, hasFilter, table, versionTable, store, pending,
                 proc>>

\* ResultsEsc with a slip: the mask is not renewed
ResultsEscKeepsMask ==
  /\ Running
  /\ UNCHANGED <<call, maxInFlight>>
  /\ state = "results"
  /\ IF hasFilter
     THEN /\ results' = baseResults
          /\ selected' = selected
          /\ table' = SetRows(table, formatResults(results', selected'))
          /\ hasFilter' = FALSE
          /\ pending' = Frozen(pending)
     ELSE UNCHANGED <<results, selected, table, hasFilter, pending>>
  /\ last' = [ev |-> "results_esc", cleared |-> hasFilter]
  /\ UNCHANGED <<state, baseResults, originalResults, originalSelected,
                 analyzer, err, viewingSecret, versions, deleteError,
                 lastCursorPos, filtered, versionTable, filterInput, store,
                 proc, session>>

\* results, "esc": clears an active filter
ResultsEsc ==
  /\ Running
  /\ UNCHANGED <<call, maxInFlight>>
  /\ state = "results"
  /\ IF hasFilter
     THEN /\ results' = baseResults
          /\ selected' = MakeBools(Len(baseResults))
          /\ table' = SetRows(table, formatResults(results', selected'))
          /\ hasFilter' = FALSE
          /\ pending' = Frozen(pending)
     ELSE UNCHANGED <<results, selected, table, hasFilter, pending>>
  /\ last' = [ev |-> "results_esc", cleared |-> hasFilter]
  /\ UNCHANGED <<state, baseResults, originalResults, originalSelected,
                 analyzer, err, viewingSecret, versions, deleteError,
                 lastCursorPos, filtered, versionTable, filterInput, store,
                 proc, session>>

\* results, "up" / "down": table.Update
ResultsMove(key) ==
  /\ Running
  /\ UNCHANGED <<call, maxInFlight>>
  /\ state = "results"
  /\ key \in {"up", "down"}
  /\ table' = TableUpdate(table, key)
  /\ table' # table
  /\ last' = Ev("move")
  /\ UNCHANGED <<state, results, baseResults, originalResults, session, selected,
                 originalSelected, analyzer, err, viewingSecret, versions,
                 deleteError, lastCursorPos, filtered, hasFilter,
                 versionTable, filterInput, store, pending, proc>>

\* ---------------------------------------------------------- message handlers
\* StartScan with a slip: the scan is started without an analyzer
StartScanUnchecked ==
  /\ Running
  /\ UNCHANGED <<call, maxInFlight>>
  /\ \E tick \in Ops :
       /\ tick.kind = "tick"
       /\ state' = "scanning"
       /\ pending' = Dispatch(Remove(pending, tick),
                              [kind |-> "scan", filtered |-> filtered])
       /\ last' = [ev |-> "startScan", tick |-> tick]
  /\ UNCHANGED <<results, baseResults, originalResults, session, selected,
                 originalSelected, analyzer, err, viewingSecret, versions,
                 deleteError, lastCursorPos, filtered, hasFilter, table,
                 versionTable, filterInput, store, proc>>

\* startScanMsg
StartScan ==
  /\ Running
  /\ UNCHANGED <<call, maxInFlight>>
  /\ \E tick \in Ops :
       /\ tick.kind = "tick"
       /\ IF ~analyzer
          THEN /\ state' = "error"
               /\ pending' = Remove(pending, tick)
          ELSE /\ state' = "scanning"
               /\ pending' = Dispatch(Remove(pending, tick),
                                      [kind |-> "scan", filtered |-> filtered])
       /\ last' = [ev |-> "startScan", tick |-> tick]
  /\ UNCHANGED <<results, baseResults, originalResults, session, selected,
                 originalSelected, analyzer, err, viewingSecret, versions,
                 deleteError, lastCursorPos, filtered, hasFilter, table,
                 versionTable, filterInput, store, proc>>

\* the goroutine of startRealScan: AnalyzeSecrets on the store, or the
\* error of ListSecrets
RunScan ==
  /\ Running
  /\ UNCHANGED <<call, maxInFlight>>
  /\ \E op \in Ops, ok \in BOOLEAN :
       /\ op.kind = "scan"
       /\ pending' = Dispatch(Remove(pending, op),
            [kind |-> "analysisCompleteMsg",
             results |-> IF ok THEN AnalyzeSecrets(store, op.filtered) ELSE <<>>,
             err |-> IF ok THEN NoErr ELSE "scan"])
  /\ last' = Ev("scanRun")
  /\ UNCHANGED <<state, results, baseResults, originalResults, session, selected,
                 originalSelected, analyzer, err, viewingSecret, versions,
                 deleteError, lastCursorPos, filtered, hasFilter, table,
                 versionTable, filterInput, store, proc>>

\* AnalysisComplete with a slip: the filter flag outlives the scan
AnalysisCompleteKeepsFlag ==
  /\ Running
  /\ UNCHANGED <<call, maxInFlight>>
  /\ \E msg \in Ops :
       /\ msg.kind = "analysisCompleteMsg"
       /\ state' = "results"
       /\ baseResults' = msg.results
       /\ results' = msg.results
       /\ err' = msg.err
       /\ IF msg.err = NoErr
          THEN /\ selected' = MakeBools(Len(msg.results))
               /\ table' = SetRows(table, formatResults(results', selected'))
               /\ hasFilter' = hasFilter
               /\ pending' = Frozen(Remove(pending, msg))
          ELSE /\ UNCHANGED <<selected, table, hasFilter>>
               /\ pending' = Remove(pending, msg)
       /\ last' = [ev |-> "analysisComplete", msg |-> msg]
  /\ Snapshot("results")
  /\ UNCHANGED <<analyzer, viewingSecret, versions, deleteError,
                 lastCursorPos, filtered, versionTable, store, proc>>

\* AnalysisComplete with a slip: the state is left as it is
AnalysisCompleteKeepsState ==
  /\ Running
  /\ UNCHANGED <<call, maxInFlight>>
  /\ \E msg \in Ops :
       /\ msg.kind = "analysisCompleteMsg"
       /\ state' = state
       /\ baseResults' = msg.results
       /\ results' = msg.results
       /\ err' = msg.err
       /\ IF msg.err = NoErr
          THEN /\ selected' = MakeBools(Len(msg.results))
               /\ table' = SetRows(table, formatResults(results', selected'))
               /\ hasFilter' = FALSE
               /\ pending' = Frozen(Remove(pending, msg))
          ELSE /\ UNCHANGED <<selected, table, hasFilter>>
               /\ pending' = Remove(pending, msg)
       /\ last' = [ev |-> "analysisComplete", msg |-> msg]
  /\ Snapshot("results")
  /\ UNCHANGED <<analyzer, viewingSecret, versions, deleteError,
                 lastCursorPos, filtered, versionTable, store, proc>>

\* AnalysisComplete with a slip: the mask outlives the scan
AnalysisCompleteKeepsMask ==
  /\ Running
  /\ UNCHANGED <<call, maxInFlight>>
  /\ \E msg \in Ops :
       /\ msg.kind = "analysisCompleteMsg"
       /\ state' = "results"
       /\ baseResults' = msg.results
       /\ results' = msg.results
       /\ err' = msg.err
       /\ IF msg.err = NoErr
          THEN /\ selected' = selected
               /\ table' = SetRows(table, formatResults(results', selected'))
               /\ hasFilter' = FALSE
               /\ pending' = Frozen(Remove(pending, msg))
          ELSE /\ UNCHANGED <<selected, table, hasFilter>>
               /\ pending' = Remove(pending, msg)
       /\ last' = [ev |-> "analysisComplete", msg |-> msg]
  /\ Snapshot("results")
  /\ UNCHANGED <<analyzer, viewingSecret, versions, deleteError,
                 lastCursorPos, filtered, versionTable, store, proc>>

\* analysisCompleteMsg
AnalysisComplete ==
  /\ Running
  /\ UNCHANGED <<call, maxInFlight>>
  /\ \E msg \in Ops :
       /\ msg.kind = "analysisCompleteMsg"
       /\ state' = "results"
       /\ baseResults' = msg.results
       /\ results' = msg.results
       /\ err' = msg.err
       /\ IF msg.err = NoErr
          THEN /\ selected' = MakeBools(Len(msg.results))
               /\ table' = SetRows(table, formatResults(results', selected'))
               /\ hasFilter' = FALSE
               /\ pending' = Frozen(Remove(pending, msg))
          ELSE /\ UNCHANGED <<selected, table, hasFilter>>
               /\ pending' = Remove(pending, msg)
       /\ last' = [ev |-> "analysisComplete", msg |-> msg]
  /\ Snapshot("results")
  /\ UNCHANGED <<analyzer, viewingSecret, versions, deleteError,
                 lastCursorPos, filtered, versionTable, store, proc>>

\* versionsFetchedMsg, with the outcome of ListSecretVersions
VersionsFetched ==
  /\ Running
  /\ UNCHANGED <<call, maxInFlight>>
  /\ \E op \in Ops, ok \in BOOLEAN :
       /\ op.kind = "fetchVersions"
       /\ pending' = Remove(pending, op)
       /\ IF ~ok
          THEN /\ err' = "detail"
               /\ state' = "results"
               /\ UNCHANGED <<versions, versionTable>>
          ELSE /\ versions' = VersionsOf(op.secret)
               /\ versionTable' = SetVersionRows(versionTable, formatVersions(versions'))
               /\ UNCHANGED <<err, state>>
       /\ last' = [ev |-> "versionsFetched", ok |-> ok, op |-> op]
  /\ Snapshot(state')
  /\ UNCHANGED <<results, baseResults, selected, analyzer, viewingSecret,
                 deleteError, lastCursorPos, filtered, hasFilter, table,
                 store, proc>>

\* valueRevealedMsg, with the outcome of GetSecretValue
ValueRevealed ==
  /\ Running
  /\ UNCHANGED <<call, maxInFlight>>
  /\ \E op \in Ops, ok \in BOOLEAN :
       /\ op.kind = "revealValue"
       /\ ok => HasVersion(op.secret, op.versionId)
       /\ ~ok \/ op.index < Len(versions)
       /\ pending' = Remove(pending, op)
       /\ IF ~ok
          THEN /\ err' = "detail"
               /\ UNCHANGED <<versions, versionTable>>
          ELSE /\ versions' = [versions EXCEPT
                                 ![op.index + 1].Value = SecretValueOf(op.secret, op.versionId),
                                 ![op.index + 1].Revealed = TRUE]
               /\ versionTable' = SetVersionRows(versionTable, formatVersions(versions'))
               /\ UNCHANGED err
       /\ last' = [ev |-> "valueRevealed", ok |-> ok, op |-> op]
  /\ UNCHANGED <<state, results, baseResults, originalResults, session, selected,
                 originalSelected, analyzer, viewingSecret, deleteError,
                 lastCursorPos, filtered, hasFilter, table, filterInput,
                 store, proc>>

\* valueRevealedMsg without error whose index is outside m.versions:
\* m.versions[msg.index] panics
ValueRevealedPanic ==
  /\ Running
  /\ UNCHANGED <<call, maxInFlight>>
  /\ \E op \in Ops :
       /\ op.kind = "revealValue"
       /\ HasVersion(op.secret, op.versionId)
       /\ op.index >= Len(versions)
       /\ last' = [ev |-> "panic_valueRevealed", ok |-> TRUE, op |-> op]
  /\ Gone("crashed")
  /\ UNCHANGED store

\* DeleteSecret succeeded: the secret leaves the account
StoreWithout(st, name) == SelectSeq(st, LAMBDA e : e.Name # name)

\* one iteration of the loop of performDelete, with the outcome of
\* DeleteSecret when the entry is selected
DeleteStep ==
  /\ Running
  /\ UNCHANGED <<call, maxInFlight>>
  /\ \E op \in Ops :
       /\ op.kind = "performDelete"
       /\ op.i < op.n
       /\ LET sel == BatchSel(op)[op.i + 1]
              rest == Remove(pending, op)
          IN IF ~sel
             THEN /\ pending' = Dispatch(rest, [op EXCEPT !.i = op.i + 1])
                  /\ UNCHANGED store
             ELSE /\ op.i < Len(op.results)
                  /\ \E ok \in BOOLEAN :
                       LET name == op.results[op.i + 1].Name
                       IN /\ pending' = Dispatch(rest,
                               [op EXCEPT !.i = op.i + 1,
                                          !.calls = Append(op.calls, name),
                                          !.errs = IF ok THEN op.errs
                                                   ELSE Append(op.errs, name)])
                          /\ store' = IF ok THEN StoreWithout(store, name) ELSE store
  /\ last' = Ev("deleteStep")
  /\ UNCHANGED <<state, results, baseResults, originalResults, session, selected,
                 originalSelected, analyzer, err, viewingSecret, versions,
                 deleteError, lastCursorPos, filtered, hasFilter, table,
                 versionTable, filterInput, proc>>

\* an iteration of performDelete on a selected index outside its m.results:
\* m.results[i] panics
DeleteStepPanic ==
  /\ Running
  /\ UNCHANGED <<call, maxInFlight>>
  /\ \E op \in Ops :
       /\ op.kind = "performDelete"
       /\ op.i < op.n
       /\ BatchSel(op)[op.i + 1]
       /\ op.i >= Len(op.results)
  /\ Gone("crashed")
  /\ last' = Ev("panic_performDelete")
  /\ UNCHANGED store

\* the loop of the deleteCompleteMsg handler reads m.results[i] for every
\* unselected i of m.selected
DeleteLoopInRange(res, sel) == \A k \in 1..Len(sel) : ~sel[k] => k <= Len(res)

RemoveSelected(res, sel) ==
  LET keep == SelectSeq([k \in 1..Len(sel) |-> k], LAMBDA k : ~sel[k])
  IN [j \in 1..Len(keep) |-> res[keep[j]]]

\* deleteCompleteMsg
DeleteComplete ==
  /\ Running
  /\ UNCHANGED <<call, maxInFlight>>
  /\ \E op \in Ops :
       /\ op.kind = "performDelete"
       /\ op.i = op.n
       /\ last' = [ev |-> "deleteComplete", op |-> op]
       /\ IF op.errs # <<>>
          THEN /\ deleteError' = op.errs
               /\ pending' = Remove(pending, op)
               /\ UNCHANGED <<results, baseResults, selected, table>>
          ELSE /\ DeleteLoopInRange(results, selected)
               /\ results' = RemoveSelected(results, selected)
               /\ baseResults' = results'
               /\ selected' = MakeBools(Len(results'))
               /\ table' = SetRows(table, formatResults(results', selected'))
               /\ pending' = Frozen(Remove(pending, op))
               /\ UNCHANGED deleteError
  /\ state' = "results"
  /\ Snapshot("results")
  /\ UNCHANGED <<analyzer, err, viewingSecret, versions, lastCursorPos,
                 filtered, hasFilter, versionTable, store, proc>>

\* deleteCompleteMsg without error while an unselected index of m.selected
\* is outside m.results: m.results[i] panics
DeleteCompletePanic ==
  /\ Running
  /\ UNCHANGED <<call, maxInFlight>>
  /\ \E op \in Ops :
       /\ op.kind = "performDelete"
       /\ op.i = op.n
       /\ op.errs = <<>>
  /\ ~DeleteLoopInRange(results, selected)
  /\ Gone("crashed")
  /\ last' = Ev("panic_deleteComplete")
  /\ UNCHANGED store

\* ----------------------------------------------------------------------- Next
\* The keys of the results, filter and confirmation states, and the messages
\* of the scan and of the delete batch.
Next ==
  \/ KeyQuit
  \/ ConfirmYes
  \/ ConfirmNo
  \/ \E key \in FilterKeys : FilterKey(key)
  \/ \E key \in {"r", "R"} : ResultsRescan(key)
  \/ ResultsToggle
  \/ ResultsDelete
  \/ \E key \in {"/", "?"} : ResultsFilterOpen(key)
  \/ ResultsEsc
  \/ \E key \in {"up", "down"} : ResultsMove(key)
  \/ StartScan
  \/ RunScan
  \/ AnalysisComplete
  \/ DeleteStep
  \/ DeleteStepPanic
  \/ DeleteComplete
  \/ DeleteCompletePanic

\* A session in which the user never opens the detail view, on an account of
\* NumSecrets secrets.
Spec == Init /\ [][Next]_vars

\* The keys and messages of the detail view
NextView ==
  \/ ResultsEnter
  \/ ViewEsc
  \/ ViewReveal
  \/ \E key \in {"up", "down"} : ViewMove(key)
  \/ VersionsFetched
  \/ ValueRevealed
  \/ ValueRevealedPanic

NextAll == Next \/ NextView

\* A session with every key and message, on an account of NumViewSecrets
\* secrets.
SpecAll == InitAll /\ [][NextAll]_vars

\* A session in which operations overlap: up to MaxRacing commands and
\* messages are in flight, on an account of one secret, with the keys of the
\* rescan and of the delete workflow.
InitRace == InitOn(SubSeq(InitialStore, 1, 1)) /\ maxInFlight = MaxRacing

NextRace ==
  \/ KeyQuit
  \/ ConfirmYes
  \/ ConfirmNo
  \/ \E key \in {"r", "R"} : ResultsRescan(key)
  \/ ResultsToggle
  \/ ResultsDelete
  \/ StartScan
  \/ RunScan
  \/ AnalysisComplete
  \/ DeleteStep
  \/ DeleteStepPanic
  \/ DeleteComplete
  \/ DeleteCompletePanic

SpecRace == InitRace /\ [][NextRace]_vars

\* The same session when the event loop goes on: the timer fires, every
\* goroutine runs to its end and every message sent is handled.
SpecLive ==
  /\ InitRace
  /\ [][NextRace]_vars
  /\ WF_vars(StartScan)
  /\ WF_vars(RunScan)
  /\ WF_vars(AnalysisComplete)
  /\ WF_vars(DeleteStep \/ DeleteStepPanic)
  /\ WF_vars(DeleteComplete \/ DeleteCompletePanic)

\* A session of the detail view in which operations overlap: up to
\* MaxViewing commands and messages are in flight, on an account of two
\* stale secrets (the first and the third of the listing), with the keys of
\* the table, of the detail view and of the quit.
InitView ==
  /\ InitOn(<<SecretEntry(1), SecretEntry(3)>>)
  /\ maxInFlight = MaxViewing

NextViewing ==
  \/ KeyQuit
  \/ \E key \in {"up", "down"} : ResultsMove(key)
  \/ ResultsEnter
  \/ ViewEsc
  \/ ViewReveal
  \/ \E key \in {"up", "down"} : ViewMove(key)
  \/ StartScan
  \/ RunScan
  \/ AnalysisComplete
  \/ VersionsFetched
  \/ ValueRevealed
  \/ ValueRevealedPanic

SpecView == InitView /\ [][NextViewing]_vars

\* ------------------------------------------------- functions on their own
\* isFuzzyMatch and AnalyzeSecrets applied to inputs of their own, outside a
\* session: no process runs, call holds the input and then the output.
NoProcess ==
  /\ proc = "none"
  /\ analyzer = FALSE
  /\ state = "gone"
  /\ results = <<>>
  /\ baseResults = <<>>
  /\ originalResults = <<>>
  /\ selected = <<>>
  /\ originalSelected = <<>>
  /\ err = NoErr
  /\ viewingSecret = <<>>
  /\ versions = <<>>
  /\ deleteError = <<>>
  /\ lastCursorPos = 0
  /\ filtered = TRUE
  /\ hasFilter = FALSE
  /\ table = [rows |-> <<>>, cursor |-> 0]
  /\ versionTable = [rows |-> 0, cursor |-> 0]
  /\ filterInput = <<>>
  /\ session = NoSession
  /\ store = <<>>
  /\ pending = EmptyBag
  /\ last = Ev("init")
  /\ maxInFlight = 0

sessionVars == <<state, results, baseResults, originalResults, selected,
                 originalSelected, analyzer, err, viewingSecret, versions,
                 deleteError, lastCursorPos, filtered, hasFilter, table,
                 versionTable, filterInput, store, pending, proc, last,
                 session, maxInFlight>>

SeqsUpTo(S, n) == UNION {[1..k -> S] : k \in 0..n}

\* the characters of the strings given to isFuzzyMatch
FuzzyChars == {"a", "B", "U+E9", "U+A9"}

\* "src", "scr", "xyz" and "my-secret-name"
StrSrc == <<"s", "r", "c">>
StrScr == <<"s", "c", "r">>
StrXyz == <<"x", "y", "z">>
StrMySecretName ==
  <<"m", "y", "-", "s", "e", "c", "r", "e", "t", "-", "n", "a", "m", "e">>

FuzzyInputs ==
  {[fn |-> "isFuzzyMatch", query |-> q, target |-> t, done |-> FALSE] :
     q \in SeqsUpTo(FuzzyChars, MaxFuzzyQuery) \cup {StrSrc, StrScr, StrXyz},
     t \in SeqsUpTo(FuzzyChars, MaxFuzzyTarget) \cup {StrMySecretName}}

\* ages in hours around the threshold: 14 days, 14 days and 1 hour, 15 days
AgeHours == {0, 14 * 24, 14 * 24 + 1, 15 * 24}

ListedEntries ==
  {[Name |-> n, CreatedDate |-> Now - c, LastAccessedDate |-> a] :
     n \in {SecretName(1), SecretName(3)},
     c \in AgeHours,
     a \in {-1} \cup {Now - h : h \in AgeHours}}

AnalyzeInputs ==
  {[fn |-> "AnalyzeSecrets", secrets |-> l, applyFilter |-> f, done |-> FALSE] :
     l \in SeqsUpTo(ListedEntries, MaxRecords), f \in BOOLEAN}

InitFn == NoProcess /\ call \in FuzzyInputs \cup AnalyzeInputs

CallIsFuzzyMatch ==
  /\ call.fn = "isFuzzyMatch" /\ ~call.done
  /\ call' = [fn |-> "isFuzzyMatch", query |-> call.query,
               target |-> call.target, done |-> TRUE,
               out |-> isFuzzyMatch(call.query, call.target)]
  /\ UNCHANGED sessionVars

CallAnalyzeSecrets ==
  /\ call.fn = "AnalyzeSecrets" /\ ~call.done
  /\ call' = [fn |-> "AnalyzeSecrets", secrets |-> call.secrets,
               applyFilter |-> call.applyFilter, done |-> TRUE,
               out |-> AnalyzeSecrets(call.secrets, call.applyFilter)]
  /\ UNCHANGED sessionVars

NextFn == CallIsFuzzyMatch \/ CallAnalyzeSecrets

SpecFn == InitFn /\ [][NextFn]_vars

\* ===================================================================== claims
\* The definitions below state the claims; they use none of the operators of
\* the model above.
AnySelected(sel) == \E k \in 1..Len(sel) : sel[k]
AllFalse(sel) == \A k \in 1..Len(sel) : ~sel[k]
NameSet(names) == {names[k] : k \in 1..Len(names)}

\* the delete batches of a bag, one element for each copy
Batches(bag) ==
  UNION {{<<x, k>> : k \in 1..bag[x]} : x \in {y \in DOMAIN bag : y.kind = "performDelete"}}

\* the names of the records of res the mask want selects among the first i
RECURSIVE SelectedNames(_, _, _)
SelectedNames(res, want, i) ==
  IF i = 0 THEN <<>>
  ELSE SelectedNames(res, want, i - 1)
       \o (IF want[i] /\ i <= Len(res) THEN <<res[i].Name>> ELSE <<>>)

\* the batch was dispatched on the list and mask the handler now sees, and
\* it called DeleteSecret for the records selected at the dispatch
SameGeneration(op) ==
  /\ op.results = results
  /\ op.want = selected
  /\ op.calls = SelectedNames(op.results, op.want, op.n)

\* the characters of q occur in t in this order, case ignored
RefLowerChar(c) == IF c = "A" THEN "a" ELSE IF c = "B" THEN "b" ELSE c
IsSubsequence(q, t) ==
  \E f \in [1..Len(q) -> 1..Len(t)] :
    /\ \A j, k \in 1..Len(q) : j < k => f[j] < f[k]
    /\ \A k \in 1..Len(q) : RefLowerChar(t[f[k]]) = RefLowerChar(q[k])

\* ApplyFilter(baseline, queryText, mode)
ApplyFilter(baseline, q, mode) ==
  SelectSeq(baseline,
            LAMBDA r : IF mode = "filter_include"
                       THEN IsSubsequence(q, r.Name)
                       ELSE ~IsSubsequence(q, r.Name))

\* C1: in every reachable state the selection mask is exactly as long as the
\* current result list.
C1_MaskLengthMatchesResults == Len(selected) = Len(results)

\* C2: when a delete batch completes with partial failure (a record deleted, a
\* record failed), the deleted records and their mask entries leave the
\* current list, and every failed record stays in it and stays selected.
C2_PartialFailureRemovesDeleted ==
  [][(/\ last'.ev = "deleteComplete"
      /\ SameGeneration(last'.op)
      /\ last'.op.errs # <<>>
      /\ NameSet(last'.op.calls) # NameSet(last'.op.errs))
     => LET deleted == NameSet(last'.op.calls) \ NameSet(last'.op.errs)
            failed == NameSet(last'.op.errs)
        IN /\ \A k \in 1..Len(results') : results'[k].Name \notin deleted
           /\ Len(selected') = Len(results')
           /\ \A name \in failed :
                \E k \in 1..Len(results') : results'[k].Name = name /\ selected'[k]
    ]_vars

\* C3: after a delete batch completes successfully, the base set is the
\* previous base set minus exactly the deleted records, so the records a
\* committed filter hides remain in it.
C3_BaseLosesOnlyDeleted ==
  [][(/\ last'.ev = "deleteComplete"
      /\ SameGeneration(last'.op)
      /\ last'.op.errs = <<>>)
     => baseResults' =
          SelectSeq(baseResults, LAMBDA r : r.Name \notin NameSet(last'.op.calls))
    ]_vars

\* C4: a batch calls DeleteSecret exactly once for every record that was
\* selected when "y" was handled, in list order, whether or not earlier calls
\* failed, and its error names only records whose call failed.
C4_BatchCallsSelectedRecords ==
  \A op \in BagToSet(pending) :
    op.kind = "performDelete" =>
      /\ op.calls = SelectedNames(op.results, op.want, op.i)
      /\ NameSet(op.errs) \subseteq NameSet(op.calls)

\* C5: a delete batch comes into being only by "y" handled in confirm_delete,
\* and DeleteSecret is called only by a step of such a batch.
C5_DeleteOnlyAfterConfirm ==
  [][/\ Cardinality(Batches(pending')) > Cardinality(Batches(pending))
          => state = "confirm_delete" /\ last'.ev = "confirm_yes"
     /\ store' # store
          => /\ last'.ev = "deleteStep"
             /\ \E b \in Batches(pending) : b[1].i < b[1].n
     /\ \A b \in Batches(pending') :
          b[1].calls # <<>> /\ b \notin Batches(pending)
          => \E c \in Batches(pending) :
               /\ c[1].results = b[1].results
               /\ c[1].want = b[1].want
               /\ Len(c[1].calls) >= Len(b[1].calls) - 1
    ]_vars

C5_Witness ==
  \E op \in BagToSet(pending) : op.kind = "performDelete" /\ op.calls # <<>>

\* C6: whenever the state is confirm_delete some entry of the mask is true,
\* and "D" in results with nothing selected leaves the state at results.
C6_ConfirmNeedsSelection ==
  /\ [](state = "confirm_delete" => AnySelected(selected))
  /\ [][(last'.ev = "delete_key" /\ ~AnySelected(selected)) => state' = "results"]_vars

C6_Witness == state = "confirm_delete" /\ last.ev = "delete_key"

\* C7 as claimed: "n" / "esc" in confirm_delete goes back to results, sends
\* no command and leaves the lists, the mask, the filter flag and the messages
\* on display as they were.
C7_CancelChangesNothing ==
  [][last'.ev = "confirm_no"
     => /\ state = "confirm_delete" /\ state' = "results"
        /\ pending' = pending /\ store' = store
        /\ UNCHANGED <<results, baseResults, selected, hasFilter, err, deleteError>>
    ]_vars

\* C7 as amended: "n" / "esc" in confirm_delete goes back to results, sends
\* no command and leaves the lists, the mask, the filter flag and the scan
\* error as they were; the delete error message is cleared.
C7_CancelClearsDeleteError ==
  [][last'.ev = "confirm_no"
     => /\ state = "confirm_delete" /\ state' = "results"
        /\ pending' = pending /\ store' = store
        /\ UNCHANGED <<results, baseResults, selected, hasFilter, err>>
        /\ deleteError' = <<>>
    ]_vars

C7_Witness ==
  /\ last.ev = "confirm_no" /\ last.hadError
  /\ state = "results" /\ AnySelected(selected)

\* C8: escape in a filter session restores the list and the mask the session
\* was opened on, selections included, and leaves the filter flag and the
\* base set as they were at the opening.
C8_FilterEscRestores ==
  [][last'.ev = "filter_esc"
     => /\ session.open
        /\ state' = "results"
        /\ results' = session.results
        /\ selected' = session.selected
        /\ hasFilter' = session.hasFilter
        /\ baseResults' = session.base
    ]_vars

C8_Witness ==
  /\ last.ev = "filter_esc" /\ last.query # <<>>
  /\ state = "results" /\ AnySelected(selected)

\* C9: enter in a filter session moves to results with the list equal to the
\* filtered view of the snapshot for the typed query, a mask of the same
\* length with every entry false, and the filter flag set.
C9_FilterEnterCommits ==
  [][last'.ev = "filter_enter"
     => /\ session.open
        /\ state' = "results"
        /\ results' = ApplyFilter(session.results, filterInput, state)
        /\ Len(selected') = Len(results') /\ AllFalse(selected')
        /\ hasFilter'
    ]_vars

C9_Witness ==
  /\ last.ev = "filter_enter" /\ last.query # <<>>
  /\ state = "results" /\ hasFilter
  /\ Len(results) > 0 /\ Len(results) < Len(baseResults)

\* C10 as claimed: throughout a filter session the list on display is
\* ApplyFilter(snapshot, query, mode), and the snapshot is the list the
\* session was opened on.
C10_PreviewAlwaysFiltered ==
  state \in {"filter_include", "filter_exclude"}
    => /\ originalResults = session.results
       /\ results = ApplyFilter(session.results, filterInput, state)

\* C10 as amended: once a key has been handled in the filter session the list
\* and the rows on display are ApplyFilter(snapshot, query, mode); until then
\* they are the list the session was opened on, whatever the mode; the
\* snapshot is the list the session was opened on throughout.
C10_PreviewFilteredAfterKey ==
  state \in {"filter_include", "filter_exclude"}
    => /\ originalResults = session.results
       /\ IF session.touched
          THEN /\ results = ApplyFilter(session.results, filterInput, state)
               /\ [k \in 1..Len(table.rows) |-> table.rows[k].Name]
                    = [k \in 1..Len(results) |-> results[k].Name]
          ELSE results = session.results

C10_Witness ==
  /\ state = "filter_exclude" /\ session.touched /\ filterInput # <<>>
  /\ Len(results) > 0 /\ Len(results) < Len(originalResults)

\* C11: escape in results with a filter active makes the current list the
\* base set, the mask all false and as long as the list, and the filter flag
\* false; with no filter active it changes neither the list, the mask nor
\* the flag.
C11_EscClearsFilter ==
  [][last'.ev = "results_esc"
     => /\ state = "results" /\ state' = "results"
        /\ baseResults' = baseResults
        /\ IF hasFilter
           THEN /\ results' = baseResults
                /\ Len(selected') = Len(baseResults) /\ AllFalse(selected')
                /\ ~hasFilter'
           ELSE UNCHANGED <<results, selected, hasFilter>>
    ]_vars

C11_Witness ==
  /\ last.ev = "results_esc" /\ last.cleared
  /\ state = "results" /\ ~hasFilter /\ Len(results) > 1

\* C12: isFuzzyMatch(query, target) is true exactly when the lowercased query
\* is an ordered, not necessarily contiguous, subsequence of the lowercased
\* target; the empty query matches every target.
C12_FuzzyIsSubsequence ==
  (call.fn = "isFuzzyMatch" /\ call.done)
    => /\ call.out = IsSubsequence(call.query, call.target)
       /\ call.query = <<>> => call.out

\* C13 as claimed: isFuzzyMatch("src", "my-secret-name") is true and
\* isFuzzyMatch("xyz", "my-secret-name") is false.
C13_FuzzyExamples ==
  (call.fn = "isFuzzyMatch" /\ call.done /\ call.target = StrMySecretName)
    => /\ call.query = StrSrc => call.out
       /\ call.query = StrXyz => ~call.out

\* C13 as amended: isFuzzyMatch("src", "my-secret-name") is false, no "c"
\* following the "r" of the target; isFuzzyMatch("scr", "my-secret-name") is
\* true and isFuzzyMatch("xyz", "my-secret-name") is false.
C13_FuzzyExamplesInOrder ==
  (call.fn = "isFuzzyMatch" /\ call.done /\ call.target = StrMySecretName)
    => /\ call.query = StrSrc => ~call.out
       /\ call.query = StrScr => call.out
       /\ call.query = StrXyz => ~call.out

C13_Witness ==
  /\ call.fn = "isFuzzyMatch" /\ call.done
  /\ call.query = StrSrc /\ call.target = StrMySecretName /\ ~call.out

\* the result AnalyzeSecrets makes of one listed record
ResultOfRecord(e) ==
  [Name |-> e.Name,
   LastAccessed |-> IF e.LastAccessedDate = -1 THEN <<"Never">>
                    ELSE <<"date", e.LastAccessedDate \div 24>>]

\* sub is made of elements of full, in the order they have in full
IsSubsequenceOf(sub, full) ==
  \E f \in [1..Len(sub) -> 1..Len(full)] :
    /\ \A j, k \in 1..Len(sub) : j < k => f[j] < f[k]
    /\ \A k \in 1..Len(sub) : sub[k] = full[f[k]]

\* C14: with the recency filter off AnalyzeSecrets returns one result for
\* every record, in listing order; with the filter on it returns a
\* subsequence of that output.
C14_FilteredIsSubsequence ==
  (call.fn = "AnalyzeSecrets" /\ call.done)
    => LET all == [k \in 1..Len(call.secrets) |-> ResultOfRecord(call.secrets[k])]
       IN IF call.applyFilter
          THEN IsSubsequenceOf(call.out, all)
          ELSE call.out = all

C14_Witness ==
  /\ call.fn = "AnalyzeSecrets" /\ call.done /\ call.applyFilter
  /\ Len(call.secrets) = 2 /\ Len(call.out) = 1
  /\ call.secrets[1].Name # call.secrets[2].Name

\* the staleness age of a record in hours: the time since the last access,
\* or since the creation when it was never accessed
AgeOfRecord(e) ==
  Now - (IF e.LastAccessedDate = -1 THEN e.CreatedDate ELSE e.LastAccessedDate)

\* C15: with the recency filter on, a record is returned if and only if its
\* staleness age exceeds 14 days (14 x 24 hours).
C15_StaleBeyondFourteenDays ==
  (call.fn = "AnalyzeSecrets" /\ call.done /\ call.applyFilter)
    => LET stale == SelectSeq(call.secrets, LAMBDA e : AgeOfRecord(e) > 14 * 24)
       IN call.out = [k \in 1..Len(stale) |-> ResultOfRecord(stale[k])]

\* C16: when a scan completion without error is applied, the state is
\* results, the base and the current list are the scan output, the mask has
\* the length of the output with every entry false, and the filter flag is
\* false.
C16_ScanSuccessResets ==
  [][(last'.ev = "analysisComplete" /\ last'.msg.err = NoErr)
     => /\ state' = "results"
        /\ results' = last'.msg.results
        /\ baseResults' = last'.msg.results
        /\ Len(selected') = Len(last'.msg.results) /\ AllFalse(selected')
        /\ ~hasFilter'
        /\ err' = NoErr
    ]_vars

C16_Witness ==
  /\ last.ev = "analysisComplete" /\ last.msg.err = NoErr
  /\ state = "results" /\ Len(results) = 2 /\ ~filtered

\* the handler branches that handle a key
KeyBranches ==
  {"quit", "confirm_yes", "confirm_no", "filter_key", "filter_esc",
   "filter_enter", "view_esc", "view_reveal", "view_move", "rescan", "enter",
   "toggle", "delete_key", "filter_open", "results_esc", "move"}

\* C17: after a scan has completed with an error, the error is recorded and
\* no key other than quit changes the state, the mask or the lists, or
\* dispatches an operation; here for the first key after the completion.
C17_FailedScanOnlyQuit ==
  [][/\ (last'.ev = "analysisComplete" /\ last'.msg.err # NoErr)
          => err' = last'.msg.err
     /\ (/\ last.ev = "analysisComplete" /\ last.msg.err # NoErr
         /\ last'.ev \in KeyBranches \ {"quit"})
          => /\ UNCHANGED <<state, selected, results, baseResults>>
             /\ pending' = pending
    ]_vars

\* C18: without an analyzer the scan trigger moves banner to error and
\* dispatches nothing, the error state is left only by quitting, and the
\* error state is never entered with an analyzer.
C18_InitFailureDeadEnd ==
  [][/\ (last'.ev = "startScan" /\ ~analyzer)
          => state = "banner" /\ state' = "error" /\ pending' = EmptyBag
     /\ state = "error"
          => \/ state' = "error" /\ pending' = EmptyBag
             \/ last'.ev = "quit"
     /\ (state' = "error" /\ state # "error") => ~analyzer
    ]_vars

C18_Witness == state = "error" /\ last.ev = "startScan" /\ pending = EmptyBag

\* the scan triggers of a bag, one element for each copy
Triggers(bag) ==
  UNION {{<<x, k>> : k \in 1..bag[x]} : x \in {y \in DOMAIN bag : y.kind = "tick"}}

\* C19: a scan trigger is scheduled only by "r" or "R" handled in results;
\* the key moves the state to banner, schedules one trigger and turns the
\* recency filter on ("r") or off ("R"); the scan dispatched when that
\* trigger fires runs the analyzer with the flag the key chose.
C19_RescanOnlyFromResults ==
  [][/\ Cardinality(Triggers(pending')) > Cardinality(Triggers(pending))
          => last'.ev = "rescan" /\ state = "results"
     /\ last'.ev = "rescan"
          => /\ state = "results" /\ state' = "banner"
             /\ Cardinality(Triggers(pending')) = Cardinality(Triggers(pending)) + 1
             /\ filtered' = (last'.key = "r")
     /\ (last'.ev = "startScan" /\ analyzer /\ last'.tick.by \in {"r", "R"})
          => \E op \in BagToSet(pending') :
               /\ op.kind = "scan"
               /\ op.filtered = (last'.tick.by = "r")
               /\ pending'[op] > (IF op \in BagToSet(pending) THEN pending[op] ELSE 0)
    ]_vars

\* C20: from startup and after every rescan key (state banner) the session
\* eventually reaches results, or error when there is no analyzer, provided
\* the timer and the completion messages are delivered and the process goes
\* on running.
C20_BannerLeadsToResults ==
  (state = "banner") ~> (state \in {"results", "error"} \/ proc # "running")

C20_Witness ==
  /\ state = "results" /\ last.ev = "analysisComplete" /\ ~filtered
  /\ last.msg.err = NoErr

\* the mask with the entry of one table row (counted from 0) flipped
FlipAt(mask, row) ==
  [k \in 1..Len(mask) |-> IF k = row + 1 THEN ~mask[k] ELSE mask[k]]

\* C21: in results the space key flips exactly the mask entry of the row at
\* the cursor and leaves every other mask entry, the current results, the
\* base results, the filter flag and the state as they were; a second space
\* on the same row brings back the mask of before the first.
C21_ToggleFlipsCursorEntry ==
  [][last'.ev = "toggle" =>
       /\ selected' = FlipAt(selected, last'.row)
       /\ UNCHANGED <<results, baseResults, hasFilter, state>>
       /\ (last.ev = "toggle" /\ last.row = last'.row) => selected' = last.before
    ]_vars

\* a row that had been selected by a space has just been cleared by another,
\* in a list of two rows
C21_Witness ==
  /\ last.ev = "toggle"
  /\ Len(selected) = NumSecrets
  /\ last.row >= 0
  /\ last.before[last.row + 1]
  /\ ~selected[last.row + 1]

\* C22: enter on a row and, later, escape in view_secret bring the session
\* back to results with the table cursor on the row that was opened and with
\* the result list and the mask as they were. In steps: enter records its
\* row and opens the secret of that row without touching list, mask or
\* table; while the detail view stays open the recorded row, the list, the
\* mask and the table stay as they are; escape returns to results with the
\* cursor on the recorded row and list, mask and rows untouched.
C22_EscReturnsToOpenedRow ==
  [][/\ last'.ev = "enter" =>
          /\ state' = "view_secret"
          /\ lastCursorPos' = last'.row
          /\ table.cursor = last'.row
          /\ viewingSecret' = results[last'.row + 1].Name
          /\ UNCHANGED <<results, selected, table>>
     /\ (state = "view_secret" /\ state' = "view_secret") =>
          UNCHANGED <<lastCursorPos, results, selected, table>>
     /\ last'.ev = "view_esc" =>
          /\ state = "view_secret"
          /\ state' = "results"
          /\ table'.cursor = lastCursorPos
          /\ table'.rows = table.rows
          /\ UNCHANGED <<lastCursorPos, results, selected>>
    ]_vars

\* back in results from the detail view of the second row, the cursor on
\* that row
C22_Witness ==
  /\ last.ev = "view_esc"
  /\ state = "results"
  /\ Len(results) = 2
  /\ lastCursorPos = 1
  /\ table.cursor = 1

\* C23: version records exist only while a detail view is active: in every
\* state other than view_secret the active version list is empty.
C23_VersionsOnlyInDetailView ==
  state # "view_secret" => versions = <<>>

\* C24: the reveal key on a version that is revealed already does nothing (no
\* fetch is dispatched, no value and no revealed flag changes), and a version
\* once revealed stays revealed with the same value for as long as the
\* version list is kept, that is until an escape discards the list or a
\* completed listing replaces it.
C24_RevealedStaysRevealed ==
  [][/\ (/\ last'.ev = "view_reveal"
          /\ versionTable.cursor >= 0
          /\ versionTable.cursor < Len(versions)
          /\ versions[versionTable.cursor + 1].Revealed) =>
          /\ ~last'.sent
          /\ UNCHANGED <<pending, versions, versionTable, state>>
     /\ (/\ Running'
          /\ last'.ev # "view_esc"
          /\ ~(last'.ev = "versionsFetched" /\ last'.ok)) =>
          \A k \in 1..Len(versions) :
             versions[k].Revealed =>
               /\ k <= Len(versions')
               /\ versions'[k] = versions[k]
    ]_vars

\* C25: a failed version listing or value reveal is recoverable: the handler
\* leaves the result list, the base list and the mask as they were, and once
\* the session is back in results with that failure recorded the screen
\* still displays the result rows.
C25_DetailFailureRecoverable ==
  [][/\ (last'.ev \in {"versionsFetched", "valueRevealed"} /\ ~last'.ok) =>
          UNCHANGED <<results, baseResults, selected>>
     /\ (state' = "results" /\ err' = "detail") => View' = "renderResults"
    ]_vars

\* nothing is listed: the result list, the base list, the mask and the rows
\* of the table are empty, and so are, in a filter session, the copies the
\* session restores
NothingListed ==
  /\ results = <<>> /\ baseResults = <<>> /\ selected = <<>>
  /\ table.rows = <<>>
  /\ state \in {"filter_include", "filter_exclude"} =>
       (originalResults = <<>> /\ originalSelected = <<>>)

\* C26: a successful scan that returns no record leaves the session in
\* results with an empty list and an empty mask, and from then on, until
\* another scan completes, no step reaches confirm_delete or view_secret or
\* dispatches a delete batch: nothing is listed and nothing comes back.
C26_EmptyScanAllowsNothing ==
  [][/\ (/\ last'.ev = "analysisComplete"
          /\ last'.msg.err = NoErr
          /\ last'.msg.results = <<>>) =>
          (state' = "results" /\ NothingListed')
     /\ (/\ NothingListed
          /\ state \notin {"confirm_delete", "view_secret"}
          /\ Running'
          /\ last'.ev # "analysisComplete") =>
          /\ NothingListed'
          /\ state' \notin {"confirm_delete", "view_secret"}
          /\ last'.ev # "confirm_yes"
          /\ Cardinality(Batches(pending')) <= Cardinality(Batches(pending))
    ]_vars

\* a scan has just completed without error and without a record
C26_Witness ==
  /\ last.ev = "analysisComplete"
  /\ last.msg.err = NoErr
  /\ last.msg.results = <<>>
  /\ state = "results"
  /\ NothingListed

\* C27: every index the delete path uses on the current result list is in
\* range: the mask entries selected when a batch is dispatched lie within
\* the list, and neither the batch nor its completion reads past the list.
C27_DeleteIndicesInRange ==
  /\ last.ev = "confirm_yes" =>
       \A op \in DOMAIN pending :
          op.kind = "performDelete" =>
            \A k \in 1..Len(op.want) : op.want[k] => k <= Len(op.results)
  /\ last.ev \notin {"panic_performDelete", "panic_deleteComplete"}

\* C28: whenever a value-reveal completion without error is applied, its
\* index is within the bounds of the active version list.
C28_RevealIndexInRange ==
  [][(last'.ev \in {"valueRevealed", "panic_valueRevealed"} /\ last'.ok) =>
       last'.op.index < Len(versions)
    ]_vars

\* C29: when a delete completion without error is applied, the records that
\* leave the result list are exactly those for which that batch called
\* DeleteSecret.
C29_CompletionRemovesBatchRecords ==
  [][(last'.ev = "deleteComplete" /\ last'.op.errs = <<>>) =>
       {results[k].Name : k \in 1..Len(results)}
         \ {results'[k].Name : k \in 1..Len(results')}
       = NameSet(last'.op.calls)
    ]_vars

\* C30: at most one delete batch is in flight at any time.
C30_OneBatchInFlight ==
  Cardinality(Batches(pending)) <= 1

\* the scans of a bag, one element for each copy: a scan is in flight from
\* its trigger to the delivery of its completion
Scans(bag) ==
  UNION {{<<x, k>> : k \in 1..bag[x]} :
           x \in {y \in DOMAIN bag : y.kind \in {"tick", "scan", "analysisCompleteMsg"}}}

\* C31: at most one scan is in flight at any time: once the session is in
\* banner or scanning, only the completion of the scan moves it back to
\* results, so no second scan is triggered before the first completes.
C31_OneScanInFlight ==
  [][/\ (state \in {"banner", "scanning"} /\ state' = "results") =>
          last'.ev = "analysisComplete"
     /\ Cardinality(Scans(pending')) <= 1
    ]_vars

\* C32: whenever the session is in view_secret with a non-empty version
\* list, every version of the list is a version of the secret being viewed,
\* and every value request in flight names a secret and a version id of
\* that same secret.
C32_VersionsOfViewedSecret ==
  /\ (state = "view_secret" /\ versions # <<>>) =>
       \A k \in 1..Len(versions) : versions[k].VersionId[1] = viewingSecret
  /\ \A op \in DOMAIN pending :
       op.kind = "revealValue" => op.versionId[1] = op.secret

\* C33: whenever the session is in results with the filter flag false, the
\* current result list equals the base result list.
C33_UnfilteredResultsAreBase ==
  (state = "results" /\ ~hasFilter) => results = baseResults

\* C34: after a delete batch completes with no failure no delete error is
\* left to display: the stored delete error is empty.
C34_CleanBatchClearsError ==
  [][(last'.ev = "deleteComplete" /\ last'.op.errs = <<>>) =>
       deleteError' = <<>>
    ]_vars

====
